---------------------------- MODULE Spec2Model ----------------------------
(***************************************************************************)
(* ignition::math::MassMatrix3<T> (include/ignition/math/MassMatrix3.hh).   *)
(*                                                                         *)
(* Numbers.  The stored scalars (mass, Ixx .. Iyz) are small integers, on   *)
(* which every polynomial the class evaluates (the minors, b, c, d, p, q)   *)
(* is exact in a double, so integer arithmetic is what the code computes.   *)
(* The principal moments are irrational in general: they are kept in units  *)
(* of 1/Scale, rounded down.  The trigonometric root formula of lines       *)
(* 369-374 is evaluated as the real number it denotes (the root of          *)
(* y^3 - 3 p y - q in the interval its cosine selects), not through a       *)
(* series for acos and cos.  A tolerance is a pair <<num, den>> standing    *)
(* for num/den, so 1e-6 and the products tol * max(diagonal) are exact.     *)
(***************************************************************************)
EXTENDS Integers, Sequences, FiniteSets, TLC

VARIABLES mass, Ixxyyzz, Ixyxzyz, edge, last, arg, ret

vars == <<mass, Ixxyyzz, Ixyxzyz, edge, last, arg, ret>>

(***************************************************************************)
(* Bounds of the model.                                                    *)
(***************************************************************************)
MaxDiag == 3
NegVal == 2
MaxOff == 1
MaxMass == 1
MaxSkew == 1
Scale == 100

\* Denominator of the default relative tolerance, _tol = 1e-6.
DefaultTolDen == 1000000

DiagVals == (0 - NegVal)..MaxDiag
\* The mass is only ever compared with zero, and an off-diagonal term only
\* enters through its square and sign: three values of each.
OffVals == {0 - MaxOff, 0, MaxOff}
MassVals == {0 - MaxMass, 0, MaxMass}
Vec3(S) == {<<x, y, z>> : x \in S, y \in S, z \in S}

(***************************************************************************)
(* Numeric primitives the class uses (Helpers.hh, Vector2.hh, Vector3.hh,   *)
(* Matrix3.hh, Quaternion.hh).                                             *)
(***************************************************************************)
Abs(x) == IF x < 0 THEN 0 - x ELSE x

\* Vector3::Max and Vector3::Sum.
Max3(v) == IF v[1] >= v[2] /\ v[1] >= v[3] THEN v[1]
           ELSE IF v[2] >= v[3] THEN v[2] ELSE v[3]
Sum3(v) == v[1] + v[2] + v[3]

\* equal<T>(a, b, eps): |a - b| <= eps, with eps = num/den and den > 0.
\* For integers a, b this is |a - b| <= floor(num/den); a negative eps makes
\* it false even for a = b.
EqualTol(a, b, num, den) == Abs(a - b) <= num \div den

\* Vector3::Equal(v, tol): component-wise equal<T>.
Vec3EqualTol(u, v, num, den) ==
    /\ EqualTol(u[1], v[1], num, den)
    /\ EqualTol(u[2], v[2], num, den)
    /\ EqualTol(u[3], v[3], num, den)

\* x < std::pow(tol, 2) for an integer x and tol = num/den:
\* x * den^2 < num^2, written without the product x * den^2.
LessThanTolSquared(x, num, den) ==
    IF num = 0 THEN x < 0
    ELSE x <= ((num * num - 1) \div den) \div den

\* floor(sqrt(n)) for n >= 0, by bisection.
RECURSIVE SqrtIter(_, _, _)
SqrtIter(n, lo, hi) ==
    IF hi - lo <= 1 THEN lo
    ELSE LET mid == (lo + hi) \div 2
         IN  IF mid * mid <= n THEN SqrtIter(n, mid, hi)
             ELSE SqrtIter(n, lo, mid)
ISqrt(n) == SqrtIter(n, 0, IF n < 46340 THEN n + 1 ELSE 46341)
ISqrtUp(n) == LET r == ISqrt(n) IN IF r * r = n THEN r ELSE r + 1

\* sort3(a, b, c): ascending order.
Sort3(v) ==
    LET lo == IF v[1] <= v[2] /\ v[1] <= v[3] THEN v[1]
              ELSE IF v[2] <= v[3] THEN v[2] ELSE v[3]
        hi == Max3(v)
    IN  <<lo, Sum3(v) - lo - hi, hi>>

\* Matrix3::Determinant of a 3x3 matrix given as three rows.
Determinant(m) ==
      m[1][1] * (m[2][2] * m[3][3] - m[2][3] * m[3][2])
    - m[1][2] * (m[2][1] * m[3][3] - m[2][3] * m[3][1])
    + m[1][3] * (m[2][1] * m[3][2] - m[2][2] * m[3][1])

(***************************************************************************)
(* An object is the record of its three fields.                            *)
(***************************************************************************)
Object(m, d, o) == [mass |-> m, Ixxyyzz |-> d, Ixyxzyz |-> o]
This == Object(mass, Ixxyyzz, Ixyxzyz)

IXX(s) == s.Ixxyyzz[1]
IYY(s) == s.Ixxyyzz[2]
IZZ(s) == s.Ixxyyzz[3]
IXY(s) == s.Ixyxzyz[1]
IXZ(s) == s.Ixyxzyz[2]
IYZ(s) == s.Ixyxzyz[3]

\* Mutant: the entries below the diagonal are left at zero.
MOI_UpperTriangle(s) ==
    << <<s.Ixxyyzz[1], s.Ixyxzyz[1], s.Ixyxzyz[2]>>,
       <<0, s.Ixxyyzz[2], s.Ixyxzyz[3]>>,
       <<0, 0, s.Ixxyyzz[3]>> >>

\* MOI() const: the symmetric matrix of the six stored scalars.
MOI(s) ==
    << <<s.Ixxyyzz[1], s.Ixyxzyz[1], s.Ixyxzyz[2]>>,
       <<s.Ixyxzyz[1], s.Ixxyyzz[2], s.Ixyxzyz[3]>>,
       <<s.Ixyxzyz[2], s.Ixyxzyz[3], s.Ixxyyzz[3]>> >>

\* Mutant: the order-3 minor is not tested.
IsPositive_NoDeterminant(s) ==
    /\ s.mass > 0
    /\ IXX(s) > 0
    /\ IXX(s) * IYY(s) - IXY(s) * IXY(s) > 0

\* IsPositive(): mass and the three leading principal minors are positive.
IsPositive(s) ==
    /\ s.mass > 0
    /\ IXX(s) > 0
    /\ IXX(s) * IYY(s) - IXY(s) * IXY(s) > 0
    /\ Determinant(MOI(s)) > 0

\* Mutant: the triangle inequality is not strict.
ValidMoments_NonStrict(m) ==
    /\ m[1] > 0
    /\ m[2] > 0
    /\ m[3] > 0
    /\ m[1] + m[2] >= m[3]
    /\ m[2] + m[3] >= m[1]
    /\ m[3] + m[1] >= m[2]

\* static ValidMoments(_moments).
ValidMoments(m) ==
    /\ m[1] > 0
    /\ m[2] > 0
    /\ m[3] > 0
    /\ m[1] + m[2] > m[3]
    /\ m[2] + m[3] > m[1]
    /\ m[3] + m[1] > m[2]

(***************************************************************************)
(* PrincipalMoments(_tol).  The result is in units of 1/Scale.             *)
(***************************************************************************)
\* T tol = _tol * this->Ixxyyzz.Max(): the numerator of the scaled tolerance.
ScaledTolNum(s, tol) == tol[1] * Max3(s.Ixxyyzz)

\* this->Ixyxzyz.Equal(Vector3<T>::Zero, tol): the diagonal fast path.
IsDiagonal(s, tol) ==
    Vec3EqualTol(s.Ixyxzyz, <<0, 0, 0>>, ScaledTolNum(s, tol), tol[2])

CharB(s) == Sum3(s.Ixxyyzz)
CharC(s) ==
      IXX(s) * IYY(s) - IXY(s) * IXY(s)
    + IXX(s) * IZZ(s) - IXZ(s) * IXZ(s)
    + IYY(s) * IZZ(s) - IYZ(s) * IYZ(s)
CharD(s) ==
      IXX(s) * IYZ(s) * IYZ(s)
    + IYY(s) * IXZ(s) * IXZ(s)
    + IZZ(s) * IXY(s) * IXY(s)
    - IXX(s) * IYY(s) * IZZ(s)
    - 2 * IXY(s) * IXZ(s) * IYZ(s)
CharP(s) == CharB(s) * CharB(s) - 3 * CharC(s)
CharQ(s) ==
    2 * CharB(s) * CharB(s) * CharB(s) - 9 * CharB(s) * CharC(s) - 27 * CharD(s)

\* The sign of y^3 - 3 p y - q at y = Y/Scale.
CubicLeq(Y, p, q) == Y * (Y * Y - 3 * p * Scale * Scale) <= q * Scale * Scale * Scale
CubicGeq(Y, p, q) == Y * (Y * Y - 3 * p * Scale * Scale) >= q * Scale * Scale * Scale

\* The largest Y in L..(H-1) at which the cubic has not yet crossed zero
\* (L itself when there is none): bisection on an interval where the cubic
\* is monotone, rising or falling.
RECURSIVE LastBefore(_, _, _, _, _)
LastBefore(L, H, p, q, rising) ==
    IF H - L <= 1 THEN L
    ELSE LET mid == (L + H) \div 2
             before == IF rising THEN CubicLeq(mid, p, q) ELSE CubicGeq(mid, p, q)
         IN  IF before THEN LastBefore(mid, H, p, q, rising)
             ELSE LastBefore(L, mid, p, q, rising)

\* 2*sqrt(p) * cos((delta + k*2*M_PI)/3) with
\* delta = acos(clamp(0.5*q / pow(p, 1.5), -1, 1)), scaled by Scale and
\* rounded down.  With y = 2 sqrt(p) cos(theta), y^3 - 3 p y =
\* 2 p^1.5 cos(3 theta) = q, and delta in [0, pi] puts the root in
\* [sqrt p, 2 sqrt p] for k = 0, in [-2 sqrt p, -sqrt p] for k = 1 and in
\* [-sqrt p, sqrt p] for k = -1.  (For a symmetric matrix |q| <= 2 p^1.5,
\* so the clamp changes nothing in real arithmetic.)
TwoSqrtPCos(p, q, k) ==
    LET r  == ISqrt(Scale * Scale * p)
        ru == ISqrtUp(Scale * Scale * p)
    IN  CASE k = 0  -> LastBefore(r, 2 * r + 3, p, q, TRUE)
          [] k = 1  -> LastBefore(0 - 2 * r - 3, 1 - ru, p, q, TRUE)
          [] OTHER  -> LastBefore(0 - ru, r + 1, p, q, FALSE)

\* moment0, moment1, moment2 of lines 372-374, before sort3.
UnsortedMoments(s) ==
    LET b == CharB(s)
        p == CharP(s)
        q == CharQ(s)
    IN  << (Scale * b + TwoSqrtPCos(p, q, 0)) \div 3,
           (Scale * b + TwoSqrtPCos(p, q, 1)) \div 3,
           (Scale * b + TwoSqrtPCos(p, q, 0 - 1)) \div 3 >>

\* Mutant: sort3 is not called.
GeneralMoments_Unsorted(s, tol) ==
    IF LessThanTolSquared(CharP(s), ScaledTolNum(s, tol), tol[2])
    THEN LET third == (Scale * CharB(s)) \div 3 IN <<third, third, third>>
    ELSE UnsortedMoments(s)

\* Lines 334-376: the path taken when the matrix is not diagonal.
GeneralMoments(s, tol) ==
    IF LessThanTolSquared(CharP(s), ScaledTolNum(s, tol), tol[2])
    THEN LET third == (Scale * CharB(s)) \div 3 IN <<third, third, third>>
    ELSE Sort3(UnsortedMoments(s))

ScaleVec(v) == <<Scale * v[1], Scale * v[2], Scale * v[3]>>

\* Mutant: the diagonal is sorted on the fast path too.
PrincipalMoments_AlwaysSorted(s, tol) ==
    IF IsDiagonal(s, tol) THEN Sort3(ScaleVec(s.Ixxyyzz))
    ELSE GeneralMoments(s, tol)

PrincipalMoments(s, tol) ==
    IF IsDiagonal(s, tol) THEN ScaleVec(s.Ixxyyzz)
    ELSE GeneralMoments(s, tol)

DefaultTol == <<1, DefaultTolDen>>

\* Mutant: the principal moments are not tested.
IsValid_PositiveOnly(s) == IsPositive(s)

\* IsValid(): PrincipalMoments() is called with its default tolerance.
IsValid(s) == IsPositive(s) /\ ValidMoments(PrincipalMoments(s, DefaultTol))

(***************************************************************************)
(* PrincipalAxesOffset(_tol).  The result records the return statement     *)
(* taken.  The two constant returns carry their quaternion <<w, x, y, z>>;  *)
(* the Euler-angle quaternions of the repeated-moment and general branches *)
(* (lines 427-499 and 503-614) need acos, atan2, sin and cos of irrational  *)
(* arguments and are not evaluated: q is <<>> there, and the record keeps   *)
(* the quantities that select the branch.                                  *)
(***************************************************************************)
Identity == <<1, 0, 0, 0>>
ZeroQuaternion == <<0, 0, 0, 0>>

\* Vector2::SquaredLength of f1 = (Ixy, -Ixz) and f2 = (Iyy - Izz, -2 Iyz).
F1SquaredLength(s) == IXY(s) * IXY(s) + IXZ(s) * IXZ(s)
F2SquaredLength(s) == (IYY(s) - IZZ(s)) * (IYY(s) - IZZ(s)) + 4 * IYZ(s) * IYZ(s)

\* Lines 415-420: index (0-based, as in the source) of the unequal moment,
\* or -1.  moments is in units of 1/Scale, and so is the tolerance here.
UnequalMoment(moments, num, den) ==
    IF EqualTol(moments[1] - moments[2], 0, Scale * num, den) THEN 2
    ELSE IF EqualTol(moments[2] - moments[3], 0, Scale * num, den) THEN 0
    ELSE 0 - 1

PrincipalAxesOffset(s, tol) ==
    LET num == ScaledTolNum(s, tol)
        den == tol[2]
        \* line 390: PrincipalMoments() is called without _tol
        moments == PrincipalMoments(s, DefaultTol)
        unequalMoment == UnequalMoment(moments, num, den)
        f1small == LessThanTolSquared(F1SquaredLength(s), num, den)
        f2small == LessThanTolSquared(F2SquaredLength(s), num, den)
    IN  IF Vec3EqualTol(moments, ScaleVec(s.Ixxyyzz), Scale * num, den)
        THEN [branch |-> "identity", q |-> Identity,
              unequalMoment |-> 0 - 1, momentsDiff3 |-> 0]
        ELSE IF unequalMoment >= 0
        THEN [branch |-> "repeated", q |-> <<>>,
              unequalMoment |-> unequalMoment,
              momentsDiff3 |-> moments[2] - moments[unequalMoment + 1]]
        ELSE IF f1small /\ f2small
        THEN [branch |-> "sentinel", q |-> ZeroQuaternion,
              unequalMoment |-> 0 - 1, momentsDiff3 |-> 0]
        ELSE [branch |-> "general", q |-> <<>>,
              unequalMoment |-> 0 - 1, momentsDiff3 |-> 0]

(***************************************************************************)
(* Matrix3 arithmetic, for the reconstruction MOI = R^T * L * R.           *)
(***************************************************************************)
Transpose(m) ==
    << <<m[1][1], m[2][1], m[3][1]>>,
       <<m[1][2], m[2][2], m[3][2]>>,
       <<m[1][3], m[2][3], m[3][3]>> >>

MatMul(a, b) ==
    [i \in 1..3 |-> [j \in 1..3 |->
        a[i][1] * b[1][j] + a[i][2] * b[2][j] + a[i][3] * b[3][j]]]

DiagMatrix(v) ==
    << <<v[1], 0, 0>>, <<0, v[2], 0>>, <<0, 0, v[3]>> >>

\* Matrix3(Quaternion): the rotation matrix of a unit quaternion <<w, x, y, z>>.
RotationMatrix(q) ==
    LET w == q[1]
        x == q[2]
        y == q[3]
        z == q[4]
    IN  << <<1 - 2*y*y - 2*z*z, 2*x*y - 2*z*w, 2*x*z + 2*y*w>>,
           <<2*x*y + 2*z*w, 1 - 2*x*x - 2*z*z, 2*y*z - 2*x*w>>,
           <<2*x*z - 2*y*w, 2*y*z + 2*x*w, 1 - 2*x*x - 2*y*y>> >>

\* Matrix3::Equal(m, tol): entry-wise equal<T>.
MatEqualTol(a, b, num, den) ==
    \A i \in 1..3 : \A j \in 1..3 : EqualTol(a[i][j], b[i][j], num, den)

(***************************************************************************)
(* Edge.hh: an edge is its kind (the derived class), its id and the array  *)
(* of its two vertex ids.  Weight and user data take no part in the        *)
(* operations modelled.                                                    *)
(***************************************************************************)
MaxVertex == 2
MaxEdgeId == 1

\* kNullId: the id that stands for "no vertex" and "no edge".
kNullId == MaxVertex + 1
VertexIds == 0..kNullId
EdgeIds == 0..MaxEdgeId \cup {kNullId}
EdgeKinds == {"UndirectedEdge", "DirectedEdge"}

Edge(kind, id, vertices) == [kind |-> kind, id |-> id, vertices |-> vertices]

\* The static members NullEdge of the two derived classes.
UndirectedEdge_NullEdge == Edge("UndirectedEdge", kNullId, <<kNullId, kNullId>>)
DirectedEdge_NullEdge == Edge("DirectedEdge", kNullId, <<kNullId, kNullId>>)

Edge_Id(e) == e.id

Edge_Valid(e) == e.id # kNullId

\* Mutant: the stored vertices are returned whether the edge is valid or not.
Edge_Vertices_Unchecked(e) == e.vertices

Edge_Vertices(e) ==
    IF ~Edge_Valid(e) THEN <<kNullId, kNullId>> ELSE e.vertices

\* front() and back() of the array of two vertex ids.
Front(a) == a[1]
Back(a) == a[2]

\* Mutant: only the front vertex has a destination.
UndirectedEdge_From_OneWay(e, from) ==
    IF ~Edge_Valid(e) THEN kNullId
    ELSE IF Front(Edge_Vertices(e)) = from THEN Back(Edge_Vertices(e))
    ELSE kNullId

UndirectedEdge_From(e, from) ==
    IF ~Edge_Valid(e) THEN kNullId
    ELSE IF from # Front(Edge_Vertices(e)) /\ from # Back(Edge_Vertices(e)) THEN kNullId
    ELSE IF Front(Edge_Vertices(e)) = from THEN Back(Edge_Vertices(e))
    ELSE Front(Edge_Vertices(e))

UndirectedEdge_To(e, to) == UndirectedEdge_From(e, to)

DirectedEdge_Tail(e) == Front(Edge_Vertices(e))
DirectedEdge_Head(e) == Back(Edge_Vertices(e))

\* Mutant: the head leads back to the tail.
DirectedEdge_From_BothWays(e, from) ==
    IF from = DirectedEdge_Tail(e) THEN DirectedEdge_Head(e)
    ELSE IF from = DirectedEdge_Head(e) THEN DirectedEdge_Tail(e)
    ELSE kNullId

DirectedEdge_From(e, from) ==
    IF from # DirectedEdge_Tail(e) THEN kNullId ELSE DirectedEdge_Head(e)

DirectedEdge_To(e, to) ==
    IF to # DirectedEdge_Head(e) THEN kNullId ELSE DirectedEdge_Tail(e)

\* The virtual functions From and To, dispatched on the derived class.
Edge_From(e, from) ==
    IF e.kind = "UndirectedEdge" THEN UndirectedEdge_From(e, from)
    ELSE DirectedEdge_From(e, from)

Edge_To(e, to) ==
    IF e.kind = "UndirectedEdge" THEN UndirectedEdge_To(e, to)
    ELSE DirectedEdge_To(e, to)

(***************************************************************************)
(* Specification: queries on a constructed object.                         *)
(***************************************************************************)
Construct(m, d, o) ==
    /\ mass = m
    /\ Ixxyyzz = d
    /\ Ixyxzyz = o
    /\ edge = DirectedEdge_NullEdge
    /\ last = "MassMatrix3"
    /\ arg = <<>>
    /\ ret = FALSE

QueryInit ==
    \E m \in MassVals, d \in Vec3(DiagVals), o \in Vec3(OffVals) : Construct(m, d, o)

Query(name, a, r) ==
    /\ last' = name
    /\ arg' = a
    /\ ret' = r
    /\ UNCHANGED <<mass, Ixxyyzz, Ixyxzyz, edge>>

CallPrincipalMoments == Query("PrincipalMoments", <<>>, PrincipalMoments(This, DefaultTol))
CallIsPositive == Query("IsPositive", <<>>, IsPositive(This))
CallIsValid == Query("IsValid", <<>>, IsValid(This))
CallPrincipalAxesOffset ==
    Query("PrincipalAxesOffset", <<>>, PrincipalAxesOffset(This, DefaultTol))
CallMOI == Query("MOI", <<>>, MOI(This))

QueryNext ==
    \/ CallPrincipalMoments
    \/ CallIsPositive
    \/ CallIsValid
    \/ CallPrincipalAxesOffset
    \/ CallMOI

QuerySpec == QueryInit /\ [][QueryNext]_vars

(***************************************************************************)
(* Specification: the static predicate ValidMoments on any vector.         *)
(***************************************************************************)
StaticInit ==
    \E m \in MassVals, x \in DiagVals : Construct(m, <<x, x, x>>, <<0, 0, 0>>)

CallValidMoments(m) == Query("ValidMoments", m, ValidMoments(m))

StaticNext == \E m \in Vec3(DiagVals) : CallValidMoments(m)

StaticSpec == StaticInit /\ [][StaticNext]_vars

(***************************************************************************)
(* Specification: the setters.  Each stores its argument and returns       *)
(* this->IsValid(), evaluated after the store.                             *)
(***************************************************************************)
ArgDiag == {0 - NegVal, 1, MaxDiag}
PosDiag == {1, MaxDiag}
PosOff == {0, MaxOff}

\* The call record of a setter: its name, its arguments, its return value.
Returns(name, a, r) ==
    /\ last' = name
    /\ arg' = a
    /\ ret' = r
    /\ UNCHANGED edge

SetMass(m) ==
    /\ mass' = m
    /\ UNCHANGED <<Ixxyyzz, Ixyxzyz>>
    /\ Returns("Mass", <<m>>, IsValid(This'))

InertiaMatrix(ixx, iyy, izz, ixy, ixz, iyz) ==
    /\ Ixxyyzz' = <<ixx, iyy, izz>>
    /\ Ixyxzyz' = <<ixy, ixz, iyz>>
    /\ UNCHANGED mass
    /\ Returns("InertiaMatrix", <<ixx, iyy, izz, ixy, ixz, iyz>>, IsValid(This'))

SetDiagonalMoments(v) ==
    /\ Ixxyyzz' = v
    /\ UNCHANGED <<mass, Ixyxzyz>>
    /\ Returns("DiagonalMoments", v, IsValid(This'))

SetOffDiagonalMoments(v) ==
    /\ Ixyxzyz' = v
    /\ UNCHANGED <<mass, Ixxyyzz>>
    /\ Returns("OffDiagonalMoments", v, IsValid(This'))

\* Mutant: the validity returned is that of the state before the store.
SetIXX_ReturnsPrevious(v) ==
    /\ Ixxyyzz' = [Ixxyyzz EXCEPT ![1] = v]
    /\ UNCHANGED <<mass, Ixyxzyz>>
    /\ Returns("IXX", <<v>>, IsValid(This))

SetIXX(v) ==
    /\ Ixxyyzz' = [Ixxyyzz EXCEPT ![1] = v]
    /\ UNCHANGED <<mass, Ixyxzyz>>
    /\ Returns("IXX", <<v>>, IsValid(This'))

\* Mutant: the store goes to the X component.
SetIYY_WritesX(v) ==
    /\ Ixxyyzz' = [Ixxyyzz EXCEPT ![1] = v]
    /\ UNCHANGED <<mass, Ixyxzyz>>
    /\ Returns("IYY", <<v>>, IsValid(This'))

SetIYY(v) ==
    /\ Ixxyyzz' = [Ixxyyzz EXCEPT ![2] = v]
    /\ UNCHANGED <<mass, Ixyxzyz>>
    /\ Returns("IYY", <<v>>, IsValid(This'))

SetIZZ(v) ==
    /\ Ixxyyzz' = [Ixxyyzz EXCEPT ![3] = v]
    /\ UNCHANGED <<mass, Ixyxzyz>>
    /\ Returns("IZZ", <<v>>, IsValid(This'))

SetIXY(v) ==
    /\ Ixyxzyz' = [Ixyxzyz EXCEPT ![1] = v]
    /\ UNCHANGED <<mass, Ixxyyzz>>
    /\ Returns("IXY", <<v>>, IsValid(This'))

SetIXZ(v) ==
    /\ Ixyxzyz' = [Ixyxzyz EXCEPT ![2] = v]
    /\ UNCHANGED <<mass, Ixxyyzz>>
    /\ Returns("IXZ", <<v>>, IsValid(This'))

SetIYZ(v) ==
    /\ Ixyxzyz' = [Ixyxzyz EXCEPT ![3] = v]
    /\ UNCHANGED <<mass, Ixxyyzz>>
    /\ Returns("IYZ", <<v>>, IsValid(This'))

\* 0.5 * (x + y).  The arguments drawn below have an even sum, so the
\* half is exact.
Half(x) == x \div 2

\* Mutant: the entries above the diagonal are stored without averaging.
SetMOI_UpperOnly(moi) ==
    /\ Ixxyyzz' = <<moi[1][1], moi[2][2], moi[3][3]>>
    /\ Ixyxzyz' = <<moi[1][2], moi[1][3], moi[2][3]>>
    /\ UNCHANGED mass
    /\ Returns("MOI", moi, IsValid(This'))

\* MOI(_moi): the diagonal, and the mean of each off-diagonal pair.
SetMOI(moi) ==
    /\ Ixxyyzz' = <<moi[1][1], moi[2][2], moi[3][3]>>
    /\ Ixyxzyz' = <<Half(moi[1][2] + moi[2][1]),
                    Half(moi[1][3] + moi[3][1]),
                    Half(moi[2][3] + moi[3][2])>>
    /\ UNCHANGED mass
    /\ Returns("MOI", moi, IsValid(This'))

\* A 3x3 matrix with diagonal d whose off-diagonal pairs have means o and
\* differ by 2 e: symmetric for e = 0, not symmetric otherwise.
Matrix(d, o, e) ==
    << <<d[1], o[1] + e, o[2] + e>>,
       <<o[1] - e, d[2], o[3] + e>>,
       <<o[2] - e, o[3] - e, d[3]>> >>

Init ==
    \/ Construct(0, <<0, 0, 0>>, <<0, 0, 0>>)
    \/ \E m \in MassVals, d \in Vec3(ArgDiag), o \in Vec3(OffVals) : Construct(m, d, o)

Next ==
    \/ \E m \in MassVals : SetMass(m)
    \/ \E d \in Vec3(PosDiag), o \in {<<0, 0, 0>>, <<MaxOff, 0, 0 - MaxOff>>} :
          InertiaMatrix(d[1], d[2], d[3], o[1], o[2], o[3])
    \/ \E v \in Vec3(ArgDiag) : SetDiagonalMoments(v)
    \/ \E v \in Vec3(PosOff) : SetOffDiagonalMoments(v)
    \/ \E v \in ArgDiag : SetIXX(v)
    \/ \E v \in ArgDiag : SetIYY(v)
    \/ \E v \in ArgDiag : SetIZZ(v)
    \/ \E v \in OffVals : SetIXY(v)
    \/ \E v \in OffVals : SetIXZ(v)
    \/ \E v \in OffVals : SetIYZ(v)
    \/ \E d \in {<<1, 1, 1>>, <<MaxDiag, 1, MaxDiag>>}, o \in Vec3(PosOff), e \in 0..MaxSkew :
          SetMOI(Matrix(d, o, e))

Spec == Init /\ [][Next]_vars

(***************************************************************************)
(* Specification: operations that take a second object.                    *)
(***************************************************************************)
\* The objects passed as arguments (and constructed initially) here.
PairObjects ==
    {Object(m, d, o) : m \in MassVals,
                       d \in {<<1, 1, 1>>, <<MaxDiag, 1, MaxDiag>>},
                       o \in Vec3(PosOff)}

\* Mutant: the off-diagonal vectors are not compared.
OperatorEq_IgnoresOffDiagonal(a, b) ==
    /\ EqualTol(a.mass, b.mass, 1, DefaultTolDen)
    /\ a.Ixxyyzz = b.Ixxyyzz

\* operator==: equal<T> on the masses (default epsilon), Vector3 operator==
\* on the two vectors.
OperatorEq(a, b) ==
    /\ EqualTol(a.mass, b.mass, 1, DefaultTolDen)
    /\ a.Ixxyyzz = b.Ixxyyzz
    /\ a.Ixyxzyz = b.Ixyxzyz

\* operator!=
OperatorNe(a, b) == ~OperatorEq(a, b)

\* MassMatrix3(const MassMatrix3 &_m): the new object is the one observed.
CopyConstruct(s) ==
    /\ mass' = s.mass
    /\ Ixxyyzz' = s.Ixxyyzz
    /\ Ixyxzyz' = s.Ixyxzyz
    /\ Returns("MassMatrix3(copy)", s, FALSE)

\* operator=: returns *this.
Assign(s) ==
    /\ mass' = s.mass
    /\ Ixxyyzz' = s.Ixxyyzz
    /\ Ixyxzyz' = s.Ixyxzyz
    /\ Returns("operator=", s, s)

CallOperatorEq(s) == Query("operator==", s, OperatorEq(This, s))
CallOperatorNe(s) == Query("operator!=", s, OperatorNe(This, s))

\* this->MOI(s.MOI())
MOIOfMOI(s) == SetMOI(MOI(s))

PairInit == \E s \in PairObjects : Construct(s.mass, s.Ixxyyzz, s.Ixyxzyz)

PairNext ==
    \/ \E s \in PairObjects : CopyConstruct(s)
    \/ \E s \in PairObjects : Assign(s)
    \/ \E s \in PairObjects : CallOperatorEq(s)
    \/ \E s \in PairObjects : CallOperatorNe(s)
    \/ \E s \in PairObjects : MOIOfMOI(s)

PairSpec == PairInit /\ [][PairNext]_vars

(***************************************************************************)
(* Specification: queries on a constructed edge.                           *)
(***************************************************************************)
EdgeInit ==
    /\ \E kind \in EdgeKinds, id \in EdgeIds, a \in VertexIds, b \in VertexIds :
          edge = Edge(kind, id, <<a, b>>)
    /\ mass = 0
    /\ Ixxyyzz = <<0, 0, 0>>
    /\ Ixyxzyz = <<0, 0, 0>>
    /\ last = "Edge"
    /\ arg = <<>>
    /\ ret = FALSE

CallId == Query("Id", <<>>, Edge_Id(edge))
CallValid == Query("Valid", <<>>, Edge_Valid(edge))
CallVertices == Query("Vertices", <<>>, Edge_Vertices(edge))
CallFrom(v) == Query("From", v, Edge_From(edge, v))
CallTo(v) == Query("To", v, Edge_To(edge, v))
CallTail == edge.kind = "DirectedEdge" /\ Query("Tail", <<>>, DirectedEdge_Tail(edge))
CallHead == edge.kind = "DirectedEdge" /\ Query("Head", <<>>, DirectedEdge_Head(edge))

EdgeNext ==
    \/ CallId
    \/ CallValid
    \/ CallVertices
    \/ \E v \in VertexIds : CallFrom(v)
    \/ \E v \in VertexIds : CallTo(v)
    \/ CallTail
    \/ CallHead

EdgeSpec == EdgeInit /\ [][EdgeNext]_vars

(***************************************************************************)
(* Specification: the decomposition called with an explicit tolerance.     *)
(***************************************************************************)
\* The tolerance arguments: the default, and two larger ones at which no
\* comparison of the decomposition falls within 1/Scale of a tie.
TolVals == {DefaultTol, <<1, 7>>, <<6, 11>>}

TolInit == \E d \in Vec3(DiagVals), o \in Vec3(OffVals) : Construct(MaxMass, d, o)

CallPrincipalMomentsTol(tol) ==
    Query("PrincipalMoments", tol, PrincipalMoments(This, tol))

CallPrincipalAxesOffsetTol(tol) ==
    Query("PrincipalAxesOffset", tol, PrincipalAxesOffset(This, tol))

TolNext ==
    \/ \E tol \in TolVals : CallPrincipalMomentsTol(tol)
    \/ \E tol \in TolVals : CallPrincipalAxesOffsetTol(tol)

TolSpec == TolInit /\ [][TolNext]_vars

(***************************************************************************)
(* Properties.                                                             *)
(***************************************************************************)
Zero3 == <<0, 0, 0>>
Positive3(m) == m[1] > 0 /\ m[2] > 0 /\ m[3] > 0
Triangle3(m) == m[1] + m[2] > m[3] /\ m[2] + m[3] > m[1] /\ m[3] + m[1] > m[2]
Ascending3(m) == m[1] <= m[2] /\ m[2] <= m[3]

C2_DiagonalReturnedVerbatim ==
    (last = "PrincipalMoments" /\ Ixyxzyz = Zero3) => ret = ScaleVec(Ixxyyzz)

\* C3: on every state whose off-diagonal terms are all zero,
\* PrincipalAxesOffset() returns the identity orientation, from its first
\* return statement.
C3_DiagonalGivesIdentity ==
    (last = "PrincipalAxesOffset" /\ Ixyxzyz = Zero3)
        => (ret.branch = "identity" /\ ret.q = Identity)

\* transpose(R) * L * R, for the rotation matrix R of the quaternion q and
\* the diagonal matrix L of the moments, compared with MOI() within the
\* scaled tolerance (everything in units of 1/Scale).
Reconstructs(q, moments) ==
    LET R == RotationMatrix(q)
        M == MOI(This)
    IN  MatEqualTol(MatMul(MatMul(Transpose(R), DiagMatrix(moments)), R),
                    <<ScaleVec(M[1]), ScaleVec(M[2]), ScaleVec(M[3])>>,
                    Scale * ScaledTolNum(This, DefaultTol), DefaultTol[2])

C5_NeverZeroQuaternion ==
    last = "PrincipalAxesOffset"
        => (ret.branch # "sentinel" /\ ret.q # ZeroQuaternion)

\* C6: every setter stores its argument, whatever its value, and returns
\* IsValid() of the state after the store.
C6_SetterStoresAndReports ==
    /\ last = "Mass" => mass = arg[1]
    /\ last = "IXX" => Ixxyyzz[1] = arg[1]
    /\ last = "IYY" => Ixxyyzz[2] = arg[1]
    /\ last = "IZZ" => Ixxyyzz[3] = arg[1]
    /\ last = "IXY" => Ixyxzyz[1] = arg[1]
    /\ last = "IXZ" => Ixyxzyz[2] = arg[1]
    /\ last = "IYZ" => Ixyxzyz[3] = arg[1]
    /\ last = "DiagonalMoments" => Ixxyyzz = arg
    /\ last = "OffDiagonalMoments" => Ixyxzyz = arg
    /\ last = "InertiaMatrix"
          => (Ixxyyzz = <<arg[1], arg[2], arg[3]>> /\ Ixyxzyz = <<arg[4], arg[5], arg[6]>>)
    /\ last = "MOI"
          => /\ Ixxyyzz = <<arg[1][1], arg[2][2], arg[3][3]>>
             /\ 2 * Ixyxzyz[1] = arg[1][2] + arg[2][1]
             /\ 2 * Ixyxzyz[2] = arg[1][3] + arg[3][1]
             /\ 2 * Ixyxzyz[3] = arg[2][3] + arg[3][2]
    /\ last # "MassMatrix3" => ret = IsValid(This)

\* A setter has stored a negative moment of inertia and returned false.
C6_Witness ==
    /\ last = "IXX"
    /\ arg[1] < 0
    /\ Ixxyyzz[1] = arg[1]
    /\ ret = FALSE

\* C7: a setter changes only the field, or the component, it names.
C7_SettersChangeOnlyTheirField ==
    [][ /\ last' = "Mass" => (Ixxyyzz' = Ixxyyzz /\ Ixyxzyz' = Ixyxzyz)
        /\ last' = "IXX" => /\ mass' = mass /\ Ixyxzyz' = Ixyxzyz
                            /\ Ixxyyzz'[2] = Ixxyyzz[2] /\ Ixxyyzz'[3] = Ixxyyzz[3]
        /\ last' = "IYY" => /\ mass' = mass /\ Ixyxzyz' = Ixyxzyz
                            /\ Ixxyyzz'[1] = Ixxyyzz[1] /\ Ixxyyzz'[3] = Ixxyyzz[3]
        /\ last' = "IZZ" => /\ mass' = mass /\ Ixyxzyz' = Ixyxzyz
                            /\ Ixxyyzz'[1] = Ixxyyzz[1] /\ Ixxyyzz'[2] = Ixxyyzz[2]
        /\ last' = "IXY" => /\ mass' = mass /\ Ixxyyzz' = Ixxyyzz
                            /\ Ixyxzyz'[2] = Ixyxzyz[2] /\ Ixyxzyz'[3] = Ixyxzyz[3]
        /\ last' = "IXZ" => /\ mass' = mass /\ Ixxyyzz' = Ixxyyzz
                            /\ Ixyxzyz'[1] = Ixyxzyz[1] /\ Ixyxzyz'[3] = Ixyxzyz[3]
        /\ last' = "IYZ" => /\ mass' = mass /\ Ixxyyzz' = Ixxyyzz
                            /\ Ixyxzyz'[1] = Ixyxzyz[1] /\ Ixyxzyz'[2] = Ixyxzyz[2]
        /\ last' = "DiagonalMoments" => (mass' = mass /\ Ixyxzyz' = Ixyxzyz)
        /\ last' = "OffDiagonalMoments" => (mass' = mass /\ Ixxyyzz' = Ixxyyzz)
        /\ last' = "InertiaMatrix" => mass' = mass
        /\ last' = "MOI" => mass' = mass ]_vars

\* IYY has stored a value that differs from every other stored scalar.
C7_Witness ==
    /\ last = "IYY"
    /\ Ixxyyzz[2] = arg[1]
    /\ Ixxyyzz[1] # arg[1]
    /\ Ixxyyzz[3] # arg[1]
    /\ mass # arg[1]

\* The determinant of the symmetric matrix of the six stored scalars.
SymmetricDet ==
      Ixxyyzz[1] * Ixxyyzz[2] * Ixxyyzz[3]
    + 2 * Ixyxzyz[1] * Ixyxzyz[2] * Ixyxzyz[3]
    - Ixxyyzz[1] * Ixyxzyz[3] * Ixyxzyz[3]
    - Ixxyyzz[2] * Ixyxzyz[2] * Ixyxzyz[2]
    - Ixxyyzz[3] * Ixyxzyz[1] * Ixyxzyz[1]

\* C8: IsPositive() is true exactly when mass > 0, Ixx > 0,
\* Ixx*Iyy - Ixy^2 > 0 and det(M) > 0, all strict; the diagonal (1, 1, -1)
\* is not positive.
C8_IsPositive ==
    last = "IsPositive"
        => /\ ret <=> /\ mass > 0
                      /\ Ixxyyzz[1] > 0
                      /\ Ixxyyzz[1] * Ixxyyzz[2] - Ixyxzyz[1] * Ixyxzyz[1] > 0
                      /\ SymmetricDet > 0
           /\ (Ixxyyzz = <<1, 1, 0 - 1>> /\ Ixyxzyz = Zero3) => ret = FALSE

\* The two leading minors are positive and the determinant alone decides.
C8_Witness ==
    /\ last = "IsPositive"
    /\ ret = FALSE
    /\ mass > 0
    /\ Ixxyyzz[1] > 0
    /\ Ixxyyzz[1] * Ixxyyzz[2] - Ixyxzyz[1] * Ixyxzyz[1] > 0

\* C9: IsValid() is true exactly when IsPositive() is true and the
\* principal moments (default tolerance) are positive and satisfy the
\* triangle inequality; a default-constructed state is not valid.
C9_IsValid ==
    last = "IsValid"
        => /\ ret <=> /\ IsPositive(This)
                      /\ Positive3(PrincipalMoments(This, DefaultTol))
                      /\ Triangle3(PrincipalMoments(This, DefaultTol))
           /\ ret => IsPositive(This)
           /\ (mass = 0 /\ Ixxyyzz = Zero3 /\ Ixyxzyz = Zero3) => ret = FALSE

\* A positive-definite state that the triangle inequality makes invalid.
C9_Witness ==
    /\ last = "IsValid"
    /\ ret = FALSE
    /\ IsPositive(This)

Permutations3(m) ==
    { <<m[1], m[2], m[3]>>, <<m[1], m[3], m[2]>>, <<m[2], m[1], m[3]>>,
      <<m[2], m[3], m[1]>>, <<m[3], m[1], m[2]>>, <<m[3], m[2], m[1]>> }

\* C10: ValidMoments(m) is decided by m alone: it is true exactly when the
\* three components are positive and each pair's sum exceeds the third
\* (the sum of the three exceeds twice the largest), for every permutation
\* of m alike; (1, 1, 1) is valid and (1, 1, 3) is not.
C10_ValidMoments ==
    last = "ValidMoments"
        => /\ ret <=> (Positive3(arg) /\ Sum3(arg) > 2 * Max3(arg))
           /\ \A m \in Permutations3(arg) : ValidMoments(m) = ret
           /\ arg = <<1, 1, 1>> => ret = TRUE
           /\ arg = <<1, 1, 3>> => ret = FALSE

\* ValidMoments((1, 1, 3)) called on an object that is not default-constructed.
C10_Witness ==
    /\ last = "ValidMoments"
    /\ arg = <<1, 1, 3>>
    /\ ret = FALSE
    /\ mass # 0

\* C11: for every state s, calling MOI(s.MOI()) on a state leaves that state
\* with the diagonal and off-diagonal terms of s, component by component
\* (its mass is not touched); applied to s itself it leaves s unchanged.
C11_MOIRoundTrip ==
    [][ \A s \in PairObjects :
          (last' = "MOI" /\ arg' = MOI(s))
              => /\ Ixxyyzz' = s.Ixxyyzz
                 /\ Ixyxzyz' = s.Ixyxzyz
                 /\ s = This => This' = This ]_vars

\* MOI(s.MOI()) was called on a state of another mass, with s not diagonal.
C11_Witness ==
    /\ last = "MOI"
    /\ \E s \in PairObjects :
          /\ arg = MOI(s)
          /\ s.Ixyxzyz # Zero3
          /\ s.mass # mass
          /\ Ixxyyzz = s.Ixxyyzz
          /\ Ixyxzyz = s.Ixyxzyz

\* C12: after MOI(m), for a matrix m that is symmetric or not, the stored
\* diagonal is the diagonal of m and each stored off-diagonal term is the
\* mean of the two entries of m it stands for; after any sequence of
\* setter calls the matrix MOI() returns is symmetric.
C12_MOISymmetrizes ==
    /\ last = "MOI"
          => /\ Ixxyyzz[1] = arg[1][1] /\ Ixxyyzz[2] = arg[2][2] /\ Ixxyyzz[3] = arg[3][3]
             /\ \A i \in 1..3 : \A j \in 1..3 :
                   i # j => 2 * MOI(This)[i][j] = arg[i][j] + arg[j][i]
    /\ \A i \in 1..3 : \A j \in 1..3 : MOI(This)[i][j] = MOI(This)[j][i]

\* MOI(m) was called with a matrix that is not symmetric and whose
\* off-diagonal means are not all zero.
C12_Witness ==
    /\ last = "MOI"
    /\ arg[1][2] # arg[2][1]
    /\ Ixyxzyz[1] # 0
    /\ Ixyxzyz[1] # arg[1][2]
    /\ 2 * Ixyxzyz[1] = arg[1][2] + arg[2][1]

C14_DirectedFromTo ==
    edge.kind = "DirectedEdge"
        => /\ last = "From"
                => ret = IF arg = DirectedEdge_Tail(edge)
                         THEN DirectedEdge_Head(edge) ELSE kNullId
           /\ last = "To"
                => ret = IF arg = DirectedEdge_Head(edge)
                         THEN DirectedEdge_Tail(edge) ELSE kNullId
           /\ (edge.id # kNullId /\ last = "From")
                => ret = IF arg = edge.vertices[1] THEN edge.vertices[2] ELSE kNullId
           /\ (edge.id # kNullId /\ last = "To")
                => ret = IF arg = edge.vertices[2] THEN edge.vertices[1] ELSE kNullId
           /\ (edge.id # kNullId /\ edge.vertices[1] # edge.vertices[2])
                => /\ (last = "From" /\ arg = edge.vertices[2]) => ret = kNullId
                   /\ (last = "To" /\ arg = edge.vertices[1]) => ret = kNullId

\* From(head) was called on a valid directed edge between two different
\* vertices and returned kNullId.
C14_Witness ==
    /\ edge.kind = "DirectedEdge"
    /\ edge.id # kNullId
    /\ edge.vertices[1] # kNullId
    /\ edge.vertices[2] # kNullId
    /\ edge.vertices[1] # edge.vertices[2]
    /\ last = "From"
    /\ arg = edge.vertices[2]
    /\ ret = kNullId

\* C15: for a valid undirected edge with ends (v1, v2), From(v1) = v2,
\* From(v2) = v1, From(v) = kNullId for every v that is neither end, and
\* To(v) = From(v) for every v; whenever From(a) = b with b # kNullId,
\* To(b) = a.
C15_UndirectedFromTo ==
    (edge.kind = "UndirectedEdge" /\ edge.id # kNullId)
        => /\ last \in {"From", "To"}
                => ret = IF arg = edge.vertices[1] THEN edge.vertices[2]
                         ELSE IF arg = edge.vertices[2] THEN edge.vertices[1]
                         ELSE kNullId
           /\ \A v \in VertexIds : Edge_To(edge, v) = Edge_From(edge, v)
           /\ (last = "From" /\ ret # kNullId) => Edge_To(edge, ret) = arg

\* From(v2) was called on a valid undirected edge between two different
\* vertices and returned v1.
C15_Witness ==
    /\ edge.kind = "UndirectedEdge"
    /\ edge.id # kNullId
    /\ edge.vertices[1] # kNullId
    /\ edge.vertices[2] # kNullId
    /\ edge.vertices[1] # edge.vertices[2]
    /\ last = "From"
    /\ arg = edge.vertices[2]
    /\ ret = edge.vertices[1]

\* C16: an edge is valid exactly when its id is not kNullId.  For an
\* invalid edge of either kind, whatever vertices it was constructed with
\* (both NullEdge constants included), Vertices() is {kNullId, kNullId} and
\* From(v) and To(v) are kNullId for every v; for a valid edge Vertices()
\* is the stored pair.
C16_InvalidEdge ==
    /\ last = "Valid" => (ret <=> edge.id # kNullId)
    /\ last = "Vertices"
          => ret = IF edge.id = kNullId THEN <<kNullId, kNullId>> ELSE edge.vertices
    /\ (edge.id = kNullId /\ last \in {"From", "To"}) => ret = kNullId
    /\ edge.id = kNullId
          => \A v \in VertexIds : Edge_From(edge, v) = kNullId /\ Edge_To(edge, v) = kNullId
    /\ \A e \in {UndirectedEdge_NullEdge, DirectedEdge_NullEdge} :
          /\ ~Edge_Valid(e)
          /\ Edge_Vertices(e) = <<kNullId, kNullId>>
          /\ \A v \in VertexIds : Edge_From(e, v) = kNullId /\ Edge_To(e, v) = kNullId

\* From(v) was called with the stored tail of an invalid directed edge that
\* was constructed with two vertices, and returned kNullId.
C16_Witness ==
    /\ edge.kind = "DirectedEdge"
    /\ edge.id = kNullId
    /\ edge.vertices[1] # kNullId
    /\ edge.vertices[2] # kNullId
    /\ last = "From"
    /\ arg = edge.vertices[1]
    /\ ret = kNullId

\* C17: whenever PrincipalAxesOffset(tol) takes the repeated-moment branch,
\* the moment selected as unequal differs from the repeated value
\* moments[1] by more than the scaled tolerance: momentsDiff3 is not zero
\* and not within the scaled tolerance of zero.
C17_UnequalMomentDiffers ==
    (last = "PrincipalAxesOffset" /\ ret.branch = "repeated")
        => /\ ret.momentsDiff3 # 0
           /\ Abs(ret.momentsDiff3) * arg[2] > Scale * arg[1] * Max3(Ixxyyzz)

\* C18: for every tolerance tol >= 0 and every state for which
\* PrincipalMoments(tol) takes the diagonal fast path, PrincipalAxesOffset(tol)
\* returns the identity orientation.
C18_FastPathGivesIdentity ==
    (last = "PrincipalAxesOffset" /\ arg[1] >= 0 /\ IsDiagonal(This, arg))
        => (ret.branch = "identity" /\ ret.q = Identity)
=============================================================================
